---- MODULE Spec2Model ----
(***************************************************************************)
(* The workspace file tree of SkriptPanda Studio (src/lib/fs.ts) and the   *)
(* structural operations on it.  JavaScript objects are modelled as cells  *)
(* of a heap (a sequence of node objects, an address is an index), so that *)
(* structuredClone, in-place mutation of the clone, and aliasing are what  *)
(* the code does and not what a value semantics would give for free.       *)
(***************************************************************************)
EXTENDS Integers, Sequences, FiniteSets, TLC

\* ------------------------------------------------------------------ bounds
\* number of ids crypto.randomUUID() hands out in one behaviour
MaxFresh == 3
\* the most folders a path the assistant names has before the file name
MaxDepth == 2
\* the workspaces that are ever created, the first one included
MaxWorkspaces == 2
\* the browser windows open on the application
MaxWindows == 3

\* ------------------------------------------------------------- input sets
\* the name a node is created with, and the names it can be renamed to
Names == {"a.sk"}
NewNames == {"b.sk"}
\* the content a file is created with, and the contents an edit can set
InitialContent == "one"
Contents == {"two"}
Positions == {"inside", "before", "after"}
RootId == 0
\* ids a caller may pass: the root, every id that can be minted, one that never is
Ids == 0..(MaxFresh + 1)
\* "no object": findNode's null, findParentAndIndex's null
NULL == 0

VARIABLES
  heap,      \* the objects of the current tree; the root is at address `tree`
  tree,      \* address of the current tree's root (React state `tree`)
  nextId,    \* the next id crypto.randomUUID() returns
  old,       \* the input tree of the last call, as it was before the call
  oldAfter,  \* the same input object graph, read again after the call
  last,      \* the last call: operation and arguments
  store,     \* the localStorage item under STORAGE_KEY
  loaded,    \* what loadTree returned since the item was last written
  archive,   \* the zip archive the last export built
  openTabs,  \* the editor's tabs: copies of the files opened, in order
  activeId,  \* the id of the active tab, or NoId
  tabsOld,   \* openTabs and activeId before the last closeTab
  manager,   \* the workspace manager (React state `workspaceManager`)
  showDashboard, \* is the workspace dashboard shown instead of the editor?
  tabStore,  \* the localStorage items skriptpanda.openTabs.{workspace id}
  activeStore, \* the localStorage items skriptpanda.activeFileId.{workspace id}
  openedIn,  \* per workspace, the ids of the tabs opened or restored while it was active
  nextWs,    \* the next workspace id crypto.randomUUID() returns
  authItem,  \* is the localStorage item of the early access flag "true"?
  gate,      \* per window, isAuthenticated of the useEarlyAccess of AppContent
  inner,     \* per window, isAuthenticated of the useEarlyAccess of Index
  pending    \* the assistant's request in flight: the tree it was given

\* the state of the tree and of the last call on it
treeVars == <<heap, tree, nextId, old, oldAfter, last>>
\* the state of the page around the tree
tabVars == <<openTabs, activeId, tabsOld>>
wsVars == <<manager, showDashboard, tabStore, activeStore, openedIn, nextWs>>
authVars == <<authItem, gate, inner>>
pageVars == <<archive, tabVars, wsVars, authVars, pending>>
vars == <<heap, tree, nextId, old, oldAfter, last, store, loaded, archive,
         openTabs, activeId, tabsOld, manager, showDashboard, tabStore,
         activeStore, openedIn, nextWs, authItem, gate, inner, pending>>

\* ------------------------------------------------------------ node objects
isFolder(n) == n.type = "folder"
isFile(n) == n.type = "file"

\* createFile with an id that is not fresh
createFileStaleId(id, name, content) ==
  [id |-> 1, name |-> name, type |-> "file", content |-> content, children |-> <<>>]

\* createFile(name, content = ""): a file object with a fresh id
createFile(id, name, content) ==
  [id |-> id, name |-> name, type |-> "file", content |-> content, children |-> <<>>]

\* createFolder(name, children = []): a folder object with a fresh id.
\* A folder has no content property; the field is kept (empty) so that all
\* heap cells have one shape.
createFolder(id, name, children) ==
  [id |-> id, name |-> name, type |-> "folder", content |-> "", children |-> children]

\* ------------------------------------------------------------ heap helpers
Range(s) == {s[i] : i \in DOMAIN s}

RECURSIVE Preorder(_, _, _)
RECURSIVE PreorderAll(_, _, _)
\* addresses visited by a depth-first walk from a (fuel bounds the depth)
Preorder(h, a, fuel) ==
  IF fuel = 0 THEN <<a>>
  ELSE <<a>> \o PreorderAll(h, h[a].children, fuel - 1)
PreorderAll(h, kids, fuel) ==
  IF kids = <<>> THEN <<>>
  ELSE Preorder(h, Head(kids), fuel) \o PreorderAll(h, Tail(kids), fuel)

RECURSIVE Dedup(_)
\* keeps the first occurrence of every element
Dedup(s) ==
  IF s = <<>> THEN <<>>
  ELSE LET r == Dedup(SubSeq(s, 1, Len(s) - 1))
           x == s[Len(s)]
       IN IF x \in Range(r) THEN r ELSE Append(r, x)

IndexOf(s, x) == CHOOSE i \in DOMAIN s : s[i] = x

\* the objects reachable from a, in first-visit order
Objects(h, a) == Dedup(Preorder(h, a, Len(h)))

\* no copy at all: the "clone" is the input object itself
structuredCloneAlias(h, a) == [heap |-> h, ret |-> a]

\* structuredClone(root): a deep copy in fresh objects; returns the heap
\* with the copies allocated and the address of the copy of a
structuredClone(h, a) ==
  LET objs == Objects(h, a)
      base == Len(h)
      copy(i) == [h[objs[i]] EXCEPT
                    !.children = [k \in DOMAIN h[objs[i]].children |->
                                    base + IndexOf(objs, h[objs[i]].children[k])]]
  IN [heap |-> h \o [i \in 1..Len(objs) |-> copy(i)], ret |-> base + 1]

\* What remains of the heap once everything unreachable from a is collected;
\* a is at address 1 and the others follow in first-visit order.
Collect(h, a) ==
  LET objs == Objects(h, a)
  IN [i \in 1..Len(objs) |->
        [h[objs[i]] EXCEPT
           !.children = [k \in DOMAIN h[objs[i]].children |->
                           IndexOf(objs, h[objs[i]].children[k])]]]

\* JavaScript Array.prototype.splice(start, 1) and splice(start, 0, x),
\* with 0-based start clamped as the language does
ClampStart(s, start) ==
  IF start < 0 THEN (IF Len(s) + start < 0 THEN 0 ELSE Len(s) + start)
  ELSE IF start > Len(s) THEN Len(s) ELSE start
SpliceOut(s, start) ==
  LET k == ClampStart(s, start)
  IN SubSeq(s, 1, k) \o SubSeq(s, k + 2, Len(s))
SpliceIn(s, start, x) ==
  LET k == ClampStart(s, start)
  IN SubSeq(s, 1, k) \o <<x>> \o SubSeq(s, k + 1, Len(s))

\* ---------------------------------------------------------------- findNode
RECURSIVE findNode(_, _, _)
RECURSIVE findNodeIn(_, _, _)
\* depth-first pre-order search by id; the address found, or NULL
findNode(h, root, id) ==
  IF h[root].id = id THEN root
  ELSE IF isFolder(h[root]) THEN findNodeIn(h, h[root].children, id)
  ELSE NULL
findNodeIn(h, kids, id) ==
  IF kids = <<>> THEN NULL
  ELSE LET found == findNode(h, Head(kids), id)
       IN IF found # NULL THEN found ELSE findNodeIn(h, Tail(kids), id)

\* ------------------------------------------------------- updateFileContent
\* the test with || written for &&
updMatchEither(n, id) == n.id = id \/ isFile(n)
\* the test without the type check
updMatchAnyType(n, id) == n.id = id
\* walk's test: node.id === id && isFile(node)
updMatch(n, id) == n.id = id /\ isFile(n)

RECURSIVE updWalk(_, _, _, _)
RECURSIVE updWalkAll(_, _, _, _)
updWalk(h, node, id, content) ==
  IF updMatch(h[node], id) THEN [h EXCEPT ![node].content = content]
  ELSE IF isFolder(h[node]) THEN updWalkAll(h, h[node].children, id, content)
  ELSE h
\* a walk that visits the first child only
updWalkFirstOnly(h, kids, id, content) ==
  IF kids = <<>> THEN h ELSE updWalk(h, Head(kids), id, content)
\* node.children.forEach(walk)
updWalkAll(h, kids, id, content) ==
  IF kids = <<>> THEN h
  ELSE updWalkAll(updWalk(h, Head(kids), id, content), Tail(kids), id, content)

updateFileContent(h, root, id, content) ==
  LET c == structuredClone(h, root)
  IN [heap |-> updWalk(c.heap, c.ret, id, content), ret |-> c.ret]

\* ---------------------------------------------------------------- addChild
\* the test without the type check
addMatchAnyType(n, parentId) == n.id = parentId
\* walk's test: node.id === parentId && isFolder(node)
addMatch(n, parentId) == n.id = parentId /\ isFolder(n)

RECURSIVE addWalk(_, _, _, _)
RECURSIVE addWalkAll(_, _, _, _)
\* a walk that puts the child first (unshift for push)
addWalkFront(h, node, parentId, child) ==
  IF addMatch(h[node], parentId)
  THEN [h EXCEPT ![node].children = <<child>> \o @]
  ELSE IF isFolder(h[node]) THEN addWalkAll(h, h[node].children, parentId, child)
  ELSE h
\* child is the address of the object passed in; it is pushed, not copied
addWalk(h, node, parentId, child) ==
  IF addMatch(h[node], parentId)
  THEN [h EXCEPT ![node].children = Append(@, child)]
  ELSE IF isFolder(h[node]) THEN addWalkAll(h, h[node].children, parentId, child)
  ELSE h
addWalkAll(h, kids, parentId, child) ==
  IF kids = <<>> THEN h
  ELSE addWalkAll(addWalk(h, Head(kids), parentId, child), Tail(kids), parentId, child)

addChild(h, root, parentId, child) ==
  LET c == structuredClone(h, root)
  IN [heap |-> addWalk(c.heap, c.ret, parentId, child), ret |-> c.ret]

\* -------------------------------------------------------------- removeNode
RECURSIVE remWalk(_, _, _)
RECURSIVE remWalkAll(_, _, _)
\* a walk that filters one level and does not descend
remWalkTopOnly(h, kids, removeId) == h
\* node.children.forEach((c) => { if (isFolder(c)) walk(c); })
remWalkAll(h, kids, removeId) ==
  IF kids = <<>> THEN h
  ELSE remWalkAll(IF isFolder(h[Head(kids)]) THEN remWalk(h, Head(kids), removeId) ELSE h,
                  Tail(kids), removeId)
remWalk(h, node, removeId) ==
  LET kept == SelectSeq(h[node].children, LAMBDA c : h[c].id # removeId)
  IN remWalkAll([h EXCEPT ![node].children = kept], kept, removeId)

\* a removal that also applies to the root: the tree is replaced by a new
\* empty folder
removeNodeRootToo(h, root, removeId) ==
  LET c == structuredClone(h, root)
  IN IF h[root].id = removeId
     THEN [heap |-> Append(h, createFolder(MaxFresh + 1, h[root].name, <<>>)),
           ret |-> Len(h) + 1]
     ELSE [heap |-> remWalk(c.heap, c.ret, removeId), ret |-> c.ret]
removeNode(h, root, removeId) ==
  LET c == structuredClone(h, root)
  IN [heap |-> remWalk(c.heap, c.ret, removeId), ret |-> c.ret]

\* -------------------------------------------------------------- renameNode
RECURSIVE renWalk(_, _, _, _)
RECURSIVE renWalkAll(_, _, _, _)
\* a walk that renames files only
renWalkFilesOnly(h, node, id, newName) ==
  IF h[node].id = id /\ isFile(h[node]) THEN [h EXCEPT ![node].name = newName]
  ELSE IF isFolder(h[node]) THEN renWalkAll(h, h[node].children, id, newName)
  ELSE h
renWalk(h, node, id, newName) ==
  IF h[node].id = id THEN [h EXCEPT ![node].name = newName]
  ELSE IF isFolder(h[node]) THEN renWalkAll(h, h[node].children, id, newName)
  ELSE h
renWalkAll(h, kids, id, newName) ==
  IF kids = <<>> THEN h
  ELSE renWalkAll(renWalk(h, Head(kids), id, newName), Tail(kids), id, newName)

renameNode(h, root, id, newName) ==
  LET c == structuredClone(h, root)
  IN [heap |-> renWalk(c.heap, c.ret, id, newName), ret |-> c.ret]

\* ---------------------------------------------------------------- moveNode
\* findParentAndIndex's null
NoInfo == [parent |-> NULL, index |-> -1]

\* children.findIndex((c) => c.id === id), 0-based, for a list that has one
findIndex(h, kids, id) ==
  (CHOOSE i \in DOMAIN kids :
     /\ h[kids[i]].id = id
     /\ \A j \in 1..(i - 1) : h[kids[j]].id # id) - 1

RECURSIVE findParentAndIndex(_, _, _)
RECURSIVE findParentAndIndexIn(_, _, _)
findParentAndIndex(h, root, id) ==
  IF \E i \in DOMAIN h[root].children : h[h[root].children[i]].id = id
  THEN [parent |-> root, index |-> findIndex(h, h[root].children, id)]
  ELSE findParentAndIndexIn(h, h[root].children, id)
findParentAndIndexIn(h, kids, id) ==
  IF kids = <<>> THEN NoInfo
  ELSE LET res == IF isFolder(h[Head(kids)])
                  THEN findParentAndIndex(h, Head(kids), id)
                  ELSE NoInfo
       IN IF res # NoInfo THEN res ELSE findParentAndIndexIn(h, Tail(kids), id)

RECURSIVE descWalk(_, _, _)
\* isDescendant's inner walk over one node
descWalk(h, n, nodeId) ==
  IF h[n].id = nodeId THEN TRUE
  ELSE IF isFolder(h[n])
       THEN \E i \in DOMAIN h[n].children : descWalk(h, h[n].children[i], nodeId)
       ELSE FALSE

\* a guard that looks at the children of ancestorId only
isDescendantDirectOnly(h, root, ancestorId, nodeId) ==
  LET ancestor == findNode(h, root, ancestorId)
  IN IF ancestor = NULL \/ ~isFolder(h[ancestor]) THEN FALSE
     ELSE \E i \in DOMAIN h[ancestor].children :
            h[h[ancestor].children[i]].id = nodeId
\* is nodeId strictly below ancestorId?
isDescendant(h, root, ancestorId, nodeId) ==
  LET ancestor == findNode(h, root, ancestorId)
  IN IF ancestor = NULL \/ ~isFolder(h[ancestor]) THEN FALSE
     ELSE \E i \in DOMAIN h[ancestor].children :
            descWalk(h, h[ancestor].children[i], nodeId)

\* moveNode without its first line
selfMoveUnchecked(sourceId, targetId) == FALSE
\* if (sourceId === targetId) return root;
selfMove(sourceId, targetId) == sourceId = targetId

\* the source left in its previous location
detachKept(children, index) == children
\* srcInfo.parent.children.splice(srcInfo.index, 1)
\* a removal that fills the hole with the last element (swap and pop)
detachSwapLast(children, index) ==
  LET n == Len(children)
  IN IF index + 1 >= n THEN SubSeq(children, 1, n - 1)
     ELSE [i \in 1..(n - 1) |-> IF i = index + 1 THEN children[n] ELSE children[i]]
detach(children, index) == SpliceOut(children, index)

\* unshift for push
placeInsideFirst(children, sourceNode) == <<sourceNode>> \o children
\* targetNode.children.push(sourceNode)
placeInside(children, sourceNode) == Append(children, sourceNode)

\* an index that is the target's own for "before" only
insertIndexBeforeOnly(h, srcInfo, targetParentInfo, position) ==
  LET base == targetParentInfo.index + (IF position = "before" THEN 0 ELSE 1)
  IN IF /\ h[targetParentInfo.parent].id = h[srcInfo.parent].id
        /\ srcInfo.index < targetParentInfo.index
     THEN base - 1
     ELSE base
\* the index at which the source is spliced in next to the target: the
\* target's index found after the removal, plus one for "after", minus one
\* when both share a parent and the source's old index is smaller
insertIndex(h, srcInfo, targetParentInfo, position) ==
  LET base == targetParentInfo.index + (IF position = "after" THEN 1 ELSE 0)
  IN IF /\ h[targetParentInfo.parent].id = h[srcInfo.parent].id
        /\ srcInfo.index < targetParentInfo.index
     THEN base - 1
     ELSE base

moveNode(h, root, sourceId, targetId, position) ==
  IF selfMove(sourceId, targetId) THEN [heap |-> h, ret |-> root]
  ELSE
    LET c == structuredClone(h, root)
        clone == c.ret
        srcInfo == findParentAndIndex(c.heap, clone, sourceId)
        targetNode == findNode(c.heap, clone, targetId)
    IN IF srcInfo = NoInfo \/ targetNode = NULL THEN c
       ELSE IF isDescendant(c.heap, clone, sourceId, targetId) THEN c
       ELSE
         LET sourceNode == c.heap[srcInfo.parent].children[srcInfo.index + 1]
             h1 == [c.heap EXCEPT ![srcInfo.parent].children = detach(@, srcInfo.index)]
         IN IF position = "inside" /\ isFolder(h1[targetNode])
            THEN [heap |-> [h1 EXCEPT ![targetNode].children = placeInside(@, sourceNode)],
                  ret |-> clone]
            ELSE
              LET targetParentInfo == findParentAndIndex(h1, clone, targetId)
              IN IF targetParentInfo = NoInfo THEN [heap |-> h1, ret |-> clone]
                 ELSE [heap |-> [h1 EXCEPT ![targetParentInfo.parent].children =
                                   SpliceIn(@, insertIndex(h1, srcInfo, targetParentInfo, position),
                                            sourceNode)],
                       ret |-> clone]

\* ------------------------------------------------------------ the program
\* the record of a call; fields a call does not have are left empty
Call(op, id, target, position, name, content) ==
  [op |-> op, id |-> id, target |-> target, position |-> position,
   name |-> name, content |-> content]
NoCall == Call("none", RootId, RootId, "inside", "", "")

\* No call is running: the event loop is between two handlers.
Idle == last.op = "none"

\* localStorage.getItem returns null: there is no item
NoItem == [present |-> FALSE, text |-> <<>>]
\* loadTree has not been called
NotLoaded == [kind |-> "none", heap |-> <<>>]
\* nothing has been exported
NoArchive == [made |-> FALSE, files |-> {}]
\* the page around the tree before anything has been done with it
\* useState<string | null>: no id
NoId == -1
\* no tabs, none active
NoTabs == [tabs |-> <<>>, active |-> NoId]
\* the ids crypto.randomUUID() gives to workspaces
WsIds == 1..MaxWorkspaces
\* localStorage.getItem of a tab list returns null
NoSavedTabs == [present |-> FALSE, tabs |-> <<>>]
\* the browser windows that show the application
Windows == 1..MaxWindows
\* the assistant is not working on a request
NoRequest == [active |-> FALSE, heap |-> <<>>]
\* One workspace, whose tree is the current tree, selected and shown in the
\* editor with no tab open; every window is signed in.
InitPage ==
  /\ archive = NoArchive
  /\ openTabs = <<>>
  /\ activeId = NoId
  /\ tabsOld = NoTabs
  /\ manager = [workspaces |-> <<[id |-> 1, tree |-> heap]>>, activeWorkspaceId |-> 1]
  /\ showDashboard = FALSE
  /\ tabStore = [w \in WsIds |-> IF w = 1 THEN [present |-> TRUE, tabs |-> <<>>] ELSE NoSavedTabs]
  /\ activeStore = [w \in WsIds |-> NoId]
  /\ openedIn = [w \in WsIds |-> {}]
  /\ nextWs = 2
  /\ authItem = TRUE
  /\ gate = [w \in Windows |-> "true"]
  /\ inner = [w \in Windows |-> "true"]
  /\ pending = NoRequest

\* A caller applies an operation to the current tree and keeps the tree it
\* returns, as the page does with setTree((t) => op(t, ...)).  The caller
\* still holds its argument t: old is t as it was before the call, oldAfter
\* is t read again through the heap the call left behind.
SetTree(r, call) ==
  /\ heap' = Collect(r.heap, r.ret)
  /\ tree' = 1
  /\ old' = heap
  /\ oldAfter' = Collect(r.heap, tree)
  /\ last' = call
  /\ UNCHANGED <<store, loaded>>
  /\ UNCHANGED pageVars

\* An empty workspace: a root folder with distinct ids below it only as
\* addChild puts them there.
Init ==
  /\ heap = <<createFolder(RootId, "workspace", <<>>)>>
  /\ tree = 1
  /\ nextId = 1
  /\ old = heap
  /\ oldAfter = heap
  /\ last = NoCall
  /\ store = NoItem
  /\ loaded = NotLoaded
  /\ InitPage

\* updateFileContent(t, id, content) on the current tree, for any id
UpdateFileContent ==
  \E id \in Ids, content \in Contents :
    /\ Idle
    /\ SetTree(updateFileContent(heap, tree, id, content),
               Call("updateFileContent", id, id, "inside", "", content))
    /\ UNCHANGED nextId

\* addChild(t, parentId, createFile(name, content)) or
\* addChild(t, parentId, createFolder(name)) on the current tree; the child
\* is a new object with the next fresh id
AddChild ==
  \E parentId \in Ids, name \in Names, type \in {"file", "folder"} :
    /\ Idle
    /\ nextId <= MaxFresh
    /\ LET node == IF type = "file" THEN createFile(nextId, name, InitialContent)
                   ELSE createFolder(nextId, name, <<>>)
           h0 == Append(heap, node)
       IN SetTree(addChild(h0, tree, parentId, Len(h0)),
                  Call("addChild", parentId, nextId, "inside", name, ""))
    /\ nextId' = nextId + 1

\* removeNode(t, id) on the current tree, for any id
RemoveNode ==
  \E id \in Ids :
    /\ Idle
    /\ SetTree(removeNode(heap, tree, id), Call("removeNode", id, id, "inside", "", ""))
    /\ UNCHANGED nextId

\* renameNode(t, id, newName) on the current tree, for any id
RenameNode ==
  \E id \in Ids, name \in NewNames :
    /\ Idle
    /\ SetTree(renameNode(heap, tree, id, name), Call("renameNode", id, id, "inside", name, ""))
    /\ UNCHANGED nextId

\* moveNode(t, sourceId, targetId, position) on the current tree
MoveNode ==
  \E sourceId \in Ids, targetId \in Ids, position \in Positions :
    /\ Idle
    /\ SetTree(moveNode(heap, tree, sourceId, targetId, position),
               Call("moveNode", sourceId, targetId, position, "", ""))
    /\ UNCHANGED nextId

\* The caller has returned and the new tree is the committed state: the
\* call's arguments and the reference to its input are released.  Calls
\* run one at a time (Idle), each to completion.
Commit ==
  /\ ~Idle
  /\ old' = heap
  /\ oldAfter' = heap
  /\ last' = NoCall
  /\ UNCHANGED <<heap, tree, nextId, store, loaded>>
  /\ UNCHANGED pageVars

Next ==
  \/ UpdateFileContent
  \/ AddChild
  \/ RemoveNode
  \/ RenameNode
  \/ MoveNode
  \/ Commit

Spec == Init /\ [][Next]_vars

\* The explorer's structural calls alone (create, delete, drag and drop).
\* None of them reads or writes a name or a content, so every node keeps the
\* ones it was created with and the trees differ in shape, types and ids.
NextTree ==
  \/ AddChild
  \/ RemoveNode
  \/ MoveNode
  \/ Commit

SpecTree == Init /\ [][NextTree]_vars

\* ------------------------------------------------------------ persistence
\* A JSON text is a sequence of tokens; commas and colons are left out.
\* k is the kind of token, s the characters of a key or string, n the id a
\* string holds when it is the value of "id".
Tok(k, s, n) == [k |-> k, s |-> s, n |-> n]
Punct(k) == Tok(k, "", 0)
Key(s) == Tok("key", s, 0)
Str(s) == Tok("string", s, 0)
IdStr(n) == Tok("string-id", "", n)
NullTok == Punct("null")

RECURSIVE stringifyNode(_, _)
RECURSIVE stringifyAll(_, _)
\* JSON.stringify of a node: its own properties in the order the
\* constructors set them; a file has content, a folder has children
stringifyNode(h, a) ==
  <<Punct("{"), Key("id"), IdStr(h[a].id), Key("name"), Str(h[a].name),
    Key("type"), Str(h[a].type)>>
  \o (IF isFile(h[a])
      THEN <<Key("content"), Str(h[a].content)>>
      ELSE <<Key("children"), Punct("[")>> \o stringifyAll(h, h[a].children)
           \o <<Punct("]")>>)
  \o <<Punct("}")>>
stringifyAll(h, kids) ==
  IF kids = <<>> THEN <<>>
  ELSE stringifyNode(h, Head(kids)) \o stringifyAll(h, Tail(kids))

\* an object none of whose properties has been set
EmptyObject == [id |-> -1, name |-> "", type |-> "", content |-> "", children |-> <<>>]
\* JSON.parse throws SyntaxError
SyntaxError == [ok |-> FALSE, pos |-> 0, heap |-> <<>>, ret |-> NULL]
\* the token at pos, or end of input
At(toks, pos) == IF pos \in DOMAIN toks THEN toks[pos] ELSE Punct("eof")

\* an element list built back to front
appendElemFront(list, x) == <<x>> \o list
\* the next element of an array goes to its end
appendElem(list, x) == Append(list, x)

RECURSIVE parseObject(_, _, _)
RECURSIVE parseMembers(_, _, _, _)
RECURSIVE parseElements(_, _, _, _)
\* JSON.parse of an object that starts at pos: a new object, then its members
parseObject(toks, pos, h) ==
  IF At(toks, pos).k # "{" THEN SyntaxError
  ELSE LET h1 == Append(h, EmptyObject)
       IN parseMembers(toks, pos + 1, h1, Len(h1))
\* the members of object a up to its closing brace
parseMembers(toks, pos, h, a) ==
  LET t == At(toks, pos)
      v == At(toks, pos + 1)
  IN IF t.k = "}" THEN [ok |-> TRUE, pos |-> pos + 1, heap |-> h, ret |-> a]
     ELSE IF t.k # "key" THEN SyntaxError
     ELSE IF t.s = "id" /\ v.k = "string-id"
       THEN parseMembers(toks, pos + 2, [h EXCEPT ![a].id = v.n], a)
     ELSE IF t.s = "name" /\ v.k = "string"
       THEN parseMembers(toks, pos + 2, [h EXCEPT ![a].name = v.s], a)
     ELSE IF t.s = "type" /\ v.k = "string"
       THEN parseMembers(toks, pos + 2, [h EXCEPT ![a].type = v.s], a)
     ELSE IF t.s = "content" /\ v.k = "string"
       THEN parseMembers(toks, pos + 2, [h EXCEPT ![a].content = v.s], a)
     ELSE IF t.s = "children" /\ v.k = "["
       THEN LET r == parseElements(toks, pos + 2, h, a)
            IN IF r.ok THEN parseMembers(toks, r.pos, r.heap, a) ELSE SyntaxError
     ELSE SyntaxError
\* the elements of the children array of object a up to its closing bracket
parseElements(toks, pos, h, a) ==
  IF At(toks, pos).k = "]" THEN [ok |-> TRUE, pos |-> pos + 1, heap |-> h, ret |-> a]
  ELSE LET r == parseObject(toks, pos, h)
       IN IF ~r.ok THEN SyntaxError
          ELSE parseElements(toks, r.pos,
                             [r.heap EXCEPT ![a].children = appendElem(@, r.ret)], a)

\* JSON.parse(raw): the value the text denotes, or SyntaxError; kind is
\* "null" for the literal null and "object" for an object
JSONparse(toks) ==
  IF toks = <<NullTok>> THEN [ok |-> TRUE, kind |-> "null", heap |-> <<>>]
  ELSE LET r == parseObject(toks, 1, <<>>)
       IN IF r.ok /\ r.pos = Len(toks) + 1
          THEN [ok |-> TRUE, kind |-> "object", heap |-> r.heap]
          ELSE [ok |-> FALSE, kind |-> "none", heap |-> <<>>]

\* DEFAULT_TREE, its file contents shortened to their first line
DEFAULT_TREE ==
  << createFolder(100, "SkriptPanda", <<2, 4, 6>>),
     createFolder(101, "scripts", <<3>>),
     createFile(102, "example.sk", "# Example Skript file"),
     createFolder(103, "Greets", <<5>>),
     createFile(104, "join-leave.sk", "# Join and Leave Messages"),
     createFile(105, "README.md", "# SkriptPanda.") >>
DefaultValue == [kind |-> "object", heap |-> DEFAULT_TREE]

\* saveTree(tree): the text written under STORAGE_KEY
saveTree(h, root) == [present |-> TRUE, text |-> stringifyNode(h, root)]
\* loadTree() when the item is st: the value returned to the caller
loadTree(st) ==
  IF ~st.present \/ st.text = <<>> THEN DefaultValue
  ELSE LET r == JSONparse(st.text)
       IN IF ~r.ok THEN DefaultValue
          ELSE [kind |-> r.kind, heap |-> r.heap]

\* Texts that something other than saveTree left under the key: the empty
\* string, a text cut off, the literal null, an object without properties,
\* a file leaf on its own, and the text of the tree short of its last token.
RawTexts(h, root) ==
  { <<>>,
    <<Punct("{")>>,
    <<NullTok>>,
    <<Punct("{"), Punct("}")>>,
    stringifyNode(<<createFile(RootId, "a.sk", InitialContent)>>, 1),
    SubSeq(stringifyNode(h, root), 1, Len(stringifyNode(h, root)) - 1) }

\* The trees saveTree is given are those that up to MaxFresh calls of
\* addChild build from the empty workspace, with either name and either
\* content.
Steps ==
  [parent : 0..(MaxFresh - 1), type : {"file", "folder"},
   name : Names \cup NewNames, content : {InitialContent} \cup Contents]
RECURSIVE Build(_, _, _)
Build(h, script, id) ==
  IF script = <<>> THEN h
  ELSE LET s == Head(script)
           node == IF s.type = "file" THEN createFile(id, s.name, s.content)
                   ELSE createFolder(id, s.name, <<>>)
           h0 == Append(h, node)
           r == addChild(h0, 1, s.parent, Len(h0))
       IN Build(Collect(r.heap, r.ret), Tail(script), id + 1)
Scripts ==
  UNION {{s \in [1..n -> Steps] :
            \A i \in 1..n : s[i].parent < i /\ (s[i].type = "folder" => s[i].content = InitialContent)}
         : n \in 0..MaxFresh}

InitStore ==
  /\ \E s \in Scripts :
       /\ heap = Build(<<createFolder(RootId, "workspace", <<>>)>>, s, 1)
       /\ nextId = Len(s) + 1
  /\ tree = 1
  /\ old = heap
  /\ oldAfter = heap
  /\ last = NoCall
  /\ store = NoItem
  /\ loaded = NotLoaded
  /\ InitPage

\* the effect that runs when the tree has changed: saveTree(tree)
SaveTree ==
  /\ store' = saveTree(heap, tree)
  /\ loaded' = NotLoaded
  /\ UNCHANGED <<heap, tree, nextId, old, oldAfter, last>>
  /\ UNCHANGED pageVars

\* the page starts and reads the tree: loadTree()
LoadTree ==
  /\ loaded' = loadTree(store)
  /\ UNCHANGED <<heap, tree, nextId, old, oldAfter, last, store>>
  /\ UNCHANGED pageVars

\* something else writes the item: another tab, an older version, the
\* user in the browser's developer tools
StorageWritten ==
  \E raw \in RawTexts(heap, tree) :
    /\ store' = [present |-> TRUE, text |-> raw]
    /\ loaded' = NotLoaded
    /\ UNCHANGED <<heap, tree, nextId, old, oldAfter, last>>
    /\ UNCHANGED pageVars

\* the site data is cleared
StorageCleared ==
  /\ store.present
  /\ store' = NoItem
  /\ loaded' = NotLoaded
  /\ UNCHANGED <<heap, tree, nextId, old, oldAfter, last>>
  /\ UNCHANGED pageVars

NextStore ==
  \/ SaveTree
  \/ LoadTree
  \/ StorageWritten
  \/ StorageCleared

SpecStore == InitStore /\ [][NextStore]_vars

\* ---------------------------------------------------------- the assistant
\* the names a path is made of, each with a dot in it, so that a path is
\* taken for a file's and not a folder's
PathNames == Names \cup NewNames
FolderPaths == UNION {[1..n -> PathNames] : n \in 0..MaxDepth}

\* the first element of kids with this name, or null
findByName(h, kids, name) ==
  LET hits == {i \in DOMAIN kids : h[kids[i]].name = name}
  IN IF hits = {} THEN NULL
     ELSE kids[CHOOSE i \in hits : \A j \in hits : i <= j]
\* findFolderByName(tree, name, parentId): the first child of the folder
\* parentId that has the name; the child's type is not looked at
findFolderByName(h, root, name, parentId) ==
  LET parent == findNode(h, root, parentId)
  IN IF parent = NULL \/ ~isFolder(h[parent]) THEN NULL
     ELSE findByName(h, h[parent].children, name)

RECURSIVE ensureFolders(_, _, _, _, _)
\* for (const folderName of folderPath.split('/')): descend into the child
\* found by name or add a new folder and descend into it
ensureFolders(h, root, names, targetParentId, id) ==
  IF names = <<>>
  THEN [heap |-> h, ret |-> root, parent |-> targetParentId, nextId |-> id]
  ELSE LET existingFolder == findFolderByName(h, root, Head(names), targetParentId)
       IN IF existingFolder = NULL
          THEN LET h0 == Append(h, createFolder(id, Head(names), <<>>))
                   r == addChild(h0, root, targetParentId, Len(h0))
               IN ensureFolders(r.heap, r.ret, Tail(names), id, id + 1)
          ELSE ensureFolders(h, root, Tail(names), h[existingFolder].id, id)

\* the 'create' operation for a file path: the folders, then the file
createAtPath(h, root, folders, fileName, content, id) ==
  LET e == ensureFolders(h, root, folders, h[root].id, id)
      h0 == Append(e.heap, createFile(e.nextId, fileName, content))
      r == addChild(h0, e.ret, e.parent, Len(h0))
  IN [heap |-> r.heap, ret |-> r.ret, file |-> e.nextId, nextId |-> e.nextId + 1]

\* The assistant executes one create operation for the path
\* folders/fileName and hands the tree to onTreeUpdate, which sets it.
AgentCreateFile ==
  \E folders \in FolderPaths, fileName \in PathNames, content \in Contents :
    LET r == createAtPath(heap, tree, folders, fileName, content, nextId)
    IN /\ Idle
       /\ r.nextId <= MaxFresh + 1
       /\ SetTree(r, [op |-> "create", id |-> RootId, target |-> r.file,
                      position |-> "inside", name |-> fileName,
                      content |-> content, path |-> folders])
       /\ nextId' = r.nextId

\* The explorer creates files and folders, the assistant creates files
\* along paths.
NextAgent ==
  \/ AddChild
  \/ AgentCreateFile
  \/ Commit

SpecAgent == Init /\ [][NextAgent]_vars

\* ------------------------------------------------------------------ export
\* A JSZip archive: its entries, each with the names of its path, whether
\* it is a directory, and its data.  An entry is known by path and kind (a
\* directory's key ends in a slash, a file's does not).
HasEntry(files, path, dir) == \E e \in files : e.path = path /\ e.dir = dir
\* zip.file(name, data) on the folder at root: the entry at that path is
\* set, replacing one that is there
zipFile(files, root, name, data) ==
  {e \in files : ~(e.path = root \o <<name>> /\ ~e.dir)}
    \cup {[path |-> root \o <<name>>, dir |-> FALSE, data |-> data]}
\* zip.folder(name) on the folder at root: the directory entry is added if
\* it is not there
zipFolder(files, root, name) ==
  IF HasEntry(files, root \o <<name>>, TRUE) THEN files
  ELSE files \cup {[path |-> root \o <<name>>, dir |-> TRUE, data |-> ""]}

RECURSIVE addNodeToZip(_, _, _, _)
RECURSIVE addAllToZip(_, _, _, _)
\* addNodeToZip(zip, node) where zip is the folder object at root
addNodeToZip(files, root, h, node) ==
  IF isFolder(h[node])
  THEN addAllToZip(zipFolder(files, root, h[node].name), root \o <<h[node].name>>,
                   h, h[node].children)
  ELSE IF isFile(h[node]) THEN zipFile(files, root, h[node].name, h[node].content)
  ELSE files
\* children.forEach((child) => addNodeToZip(folder, child))
addAllToZip(files, root, h, kids) ==
  IF kids = <<>> THEN files
  ELSE addAllToZip(addNodeToZip(files, root, h, Head(kids)), root, h, Tail(kids))

\* exportTreeAsZip(tree): the root's children at the top of the archive
exportTreeAsZip(h, root) ==
  [made |-> TRUE, files |-> addAllToZip({}, <<>>, h, h[root].children)]

\* Export is pressed on the current tree.
ExportTree ==
  /\ archive' = exportTreeAsZip(heap, tree)
  /\ UNCHANGED <<treeVars, store, loaded, tabVars, wsVars, authVars, pending>>

\* Trees built by the explorer, exported.
SpecExport == InitStore /\ [][ExportTree]_vars

\* -------------------------------------------------------------- workspaces
\* the ids of the workspaces of a manager
WorkspaceIds(m) == {m.workspaces[i].id : i \in DOMAIN m.workspaces}
\* manager.workspaces.find((ws) => ws.id === id); the caller has checked
\* that there is one
WorkspaceOf(m, id) ==
  m.workspaces[CHOOSE i \in DOMAIN m.workspaces :
                 m.workspaces[i].id = id /\ \A j \in 1..(i - 1) : m.workspaces[j].id # id]
\* createWorkspace(name): every workspace starts with the tree DEFAULT_TREE
createWorkspace(id) == [id |-> id, tree |-> DEFAULT_TREE]
\* loadWorkspaces() when localStorage has no item: one default workspace,
\* which is the active one
loadWorkspaces(id) ==
  [workspaces |-> <<createWorkspace(id)>>, activeWorkspaceId |-> id]
\* updateWorkspaceTree(manager, workspaceId, tree)
updateWorkspaceTree(m, workspaceId, t) ==
  [m EXCEPT !.workspaces =
     [i \in DOMAIN @ |-> IF @[i].id = workspaceId THEN [@[i] EXCEPT !.tree = t] ELSE @[i]]]
\* the dashboard's [...manager.workspaces, workspace]
addWorkspace(m, ws) == [m EXCEPT !.workspaces = Append(@, ws)]
\* the first workspace that is not the one deleted, || null
otherWorkspace(m, workspaceId) ==
  LET rest == SelectSeq(m.workspaces, LAMBDA ws : ws.id # workspaceId)
  IN IF rest = <<>> THEN NoId ELSE rest[1].id
\* the last workspace is deleted like any other
deleteWorkspaceAlways(m, workspaceId) ==
  [threw |-> FALSE,
   manager |-> [workspaces |-> SelectSeq(m.workspaces, LAMBDA ws : ws.id # workspaceId),
                activeWorkspaceId |->
                  IF m.activeWorkspaceId = workspaceId THEN otherWorkspace(m, workspaceId)
                  ELSE m.activeWorkspaceId]]
\* deleteWorkspace(manager, workspaceId): throws when it is the last one
deleteWorkspace(m, workspaceId) ==
  IF Len(m.workspaces) <= 1 THEN [threw |-> TRUE, manager |-> m]
  ELSE [threw |-> FALSE,
        manager |-> [workspaces |-> SelectSeq(m.workspaces, LAMBDA ws : ws.id # workspaceId),
                     activeWorkspaceId |->
                       IF m.activeWorkspaceId = workspaceId THEN otherWorkspace(m, workspaceId)
                       ELSE m.activeWorkspaceId]]
\* switchWorkspace(manager, workspaceId)
switchWorkspace(m, workspaceId) == [m EXCEPT !.activeWorkspaceId = workspaceId]

\* a call on the manager: the operation, the workspace named, the manager
\* it was given and whether it threw
ManagerCall(op, workspaceId, m, threw) ==
  [op |-> op, id |-> workspaceId, manager |-> m, threw |-> threw]
\* a tree with nothing below the root
EmptyTree == <<createFolder(RootId, "workspace", <<>>)>>
\* the trees updateWorkspaceTree is given
SampleTrees == {DEFAULT_TREE, EmptyTree}

\* The manager as loadWorkspaces() returns it when nothing is stored.
InitManager ==
  /\ heap = DEFAULT_TREE
  /\ tree = 1
  /\ nextId = 1
  /\ old = heap
  /\ oldAfter = heap
  /\ last = NoCall
  /\ store = NoItem
  /\ loaded = NotLoaded
  /\ archive = NoArchive
  /\ openTabs = <<>>
  /\ activeId = NoId
  /\ tabsOld = NoTabs
  /\ manager = loadWorkspaces(1)
  /\ showDashboard = TRUE
  /\ tabStore = [w \in WsIds |-> NoSavedTabs]
  /\ activeStore = [w \in WsIds |-> NoId]
  /\ openedIn = [w \in WsIds |-> {}]
  /\ nextWs = 2
  /\ authItem = TRUE
  /\ gate = [w \in Windows |-> "true"]
  /\ inner = [w \in Windows |-> "true"]
  /\ pending = NoRequest

\* the variables the calls on the manager leave alone
notManager ==
  <<heap, tree, nextId, old, oldAfter, store, loaded, archive, tabVars,
    showDashboard, tabStore, activeStore, openedIn, authVars, pending>>

\* a workspace is created and put at the end of the list
AddWorkspace ==
  /\ Idle
  /\ nextWs <= MaxWorkspaces
  /\ manager' = addWorkspace(manager, createWorkspace(nextWs))
  /\ nextWs' = nextWs + 1
  /\ last' = ManagerCall("addWorkspace", nextWs, manager, FALSE)
  /\ UNCHANGED notManager

\* deleteWorkspace(manager, id) for a workspace of the list
DeleteWorkspaceCall ==
  \E id \in WorkspaceIds(manager) :
    LET r == deleteWorkspace(manager, id)
    IN /\ Idle
       /\ manager' = r.manager
       /\ last' = ManagerCall("deleteWorkspace", id, manager, r.threw)
       /\ UNCHANGED <<notManager, nextWs>>

\* switchWorkspace(manager, id) for a workspace of the list
SwitchWorkspaceCall ==
  \E id \in WorkspaceIds(manager) :
    /\ Idle
    /\ manager' = switchWorkspace(manager, id)
    /\ last' = ManagerCall("switchWorkspace", id, manager, FALSE)
    /\ UNCHANGED <<notManager, nextWs>>

\* updateWorkspaceTree(manager, id, tree) for a workspace of the list
UpdateWorkspaceTreeCall ==
  \E id \in WorkspaceIds(manager), t \in SampleTrees :
    /\ Idle
    /\ manager' = updateWorkspaceTree(manager, id, t)
    /\ last' = ManagerCall("updateWorkspaceTree", id, manager, FALSE)
    /\ UNCHANGED <<notManager, nextWs>>

\* the call has returned
CommitManager ==
  /\ ~Idle
  /\ last' = NoCall
  /\ UNCHANGED <<notManager, manager, nextWs>>

NextManager ==
  \/ AddWorkspace
  \/ DeleteWorkspaceCall
  \/ SwitchWorkspaceCall
  \/ UpdateWorkspaceTreeCall
  \/ CommitManager

\* The functions of the workspace manager, called with the ids of the list.
SpecManager == InitManager /\ [][NextManager]_vars

\* -------------------------------------------------------------------- tabs
\* A handler of the page sets the tree an operation returns; nothing of the
\* call is kept.
SetTreeQuiet(r) ==
  /\ heap' = Collect(r.heap, r.ret)
  /\ tree' = 1
  /\ old' = heap'
  /\ oldAfter' = heap'
  /\ last' = NoCall

\* the ids of the nodes the explorer shows
TreeIds == {heap[a].id : a \in DOMAIN heap}
\* the tab opened for a file: the file object as it is in the tree
TabOf(n) == [id |-> n.id, name |-> n.name, content |-> n.content]
TabIds(tabs) == {tabs[i].id : i \in DOMAIN tabs}
\* tabs.findIndex((t) => t.id === id), from 0; -1 when there is none
tabIndex(tabs, id) ==
  IF id \in TabIds(tabs)
  THEN (CHOOSE i \in DOMAIN tabs : tabs[i].id = id /\ \A j \in 1..(i - 1) : tabs[j].id # id) - 1
  ELSE -1
\* next[i] ?? ... : the id of the element at index i from 0, if there is one
idAt(tabs, i) == IF i + 1 \in DOMAIN tabs THEN tabs[i + 1].id ELSE NoId

\* The effect on [tree]: the tree that has been set is put into the active
\* workspace of the manager and saved under STORAGE_KEY.
TreeEffect ==
  /\ manager' = IF manager.activeWorkspaceId # NoId
                THEN updateWorkspaceTree(manager, manager.activeWorkspaceId, heap')
                ELSE manager
  /\ store' = saveTree(heap', tree')
  /\ loaded' = NotLoaded
\* the handler sets no tree
NoTreeEffect == UNCHANGED <<manager, store, loaded>>
\* The effects on [openTabs, activeWorkspaceId] and on [activeId,
\* activeWorkspaceId]: the tabs and the active id that have been set are
\* saved under the id of the workspace that is now the active one.
TabsEffect ==
  LET workspaceId == manager'.activeWorkspaceId
  IN /\ tabStore' = IF workspaceId # NoId
                    THEN [tabStore EXCEPT ![workspaceId] = [present |-> TRUE, tabs |-> openTabs']]
                    ELSE tabStore
     /\ activeStore' = IF workspaceId # NoId
                       THEN [activeStore EXCEPT ![workspaceId] = activeId']
                       ELSE activeStore
\* what a handler of the editor leaves alone
editorRest == <<archive, showDashboard, nextWs, authVars, pending>>

\* a tab is added whether or not the file has one
openTabAlways(tabs, file) == Append(tabs, file)
\* exists ? tabs : [...tabs, file]
openTab(tabs, file) ==
  IF file.id \in TabIds(tabs) THEN tabs ELSE Append(tabs, file)

\* handleOpenFile(file), file a File of the tree clicked in the explorer
HandleOpenFile ==
  \E a \in DOMAIN heap :
    /\ Idle
    /\ ~showDashboard
    /\ isFile(heap[a])
    /\ openTabs' = openTab(openTabs, TabOf(heap[a]))
    /\ activeId' = heap[a].id
    /\ openedIn' = [openedIn EXCEPT ![manager.activeWorkspaceId] = @ \cup {heap[a].id}]
    /\ NoTreeEffect
    /\ TabsEffect
    /\ UNCHANGED <<treeVars, tabsOld, editorRest>>

\* selectTab(id), id the id of a tab clicked
SelectTab ==
  \E id \in TabIds(openTabs) :
    /\ Idle
    /\ ~showDashboard
    /\ activeId' = id
    /\ UNCHANGED openTabs
    /\ NoTreeEffect
    /\ TabsEffect
    /\ UNCHANGED <<treeVars, tabsOld, openedIn, editorRest>>

\* the new active id after the active tab at index idx has gone
closeActivePreferRight(next, idx) ==
  IF idAt(next, idx) # NoId THEN idAt(next, idx) ELSE idAt(next, idx - 1)
\* next[idx - 1] ?? next[idx] ?? null
closeActive(next, idx) ==
  IF idAt(next, idx - 1) # NoId THEN idAt(next, idx - 1) ELSE idAt(next, idx)

\* closeTab(id), id the id of a tab whose close button is clicked
CloseTab ==
  \E id \in TabIds(openTabs) :
    LET idx == tabIndex(openTabs, id)
        next == SelectSeq(openTabs, LAMBDA t : t.id # id)
    IN /\ Idle
       /\ ~showDashboard
       /\ openTabs' = next
       /\ activeId' = IF activeId = id THEN closeActive(next, idx) ELSE activeId
       /\ tabsOld' = [tabs |-> openTabs, active |-> activeId]
       /\ last' = Call("closeTab", id, id, "inside", "", "")
       /\ NoTreeEffect
       /\ TabsEffect
       /\ UNCHANGED <<heap, tree, nextId, old, oldAfter, openedIn, editorRest>>

\* the Create dialog's button: addChild of a new file or folder
CreateConfirm ==
  \E parentId \in TreeIds, name \in Names, type \in {"file", "folder"} :
    /\ Idle
    /\ ~showDashboard
    /\ nextId <= MaxFresh
    /\ LET node == IF type = "file" THEN createFile(nextId, name, InitialContent)
                   ELSE createFolder(nextId, name, <<>>)
           h0 == Append(heap, node)
       IN SetTreeQuiet(addChild(h0, tree, parentId, Len(h0)))
    /\ nextId' = nextId + 1
    /\ UNCHANGED <<openTabs, activeId>>
    /\ TreeEffect
    /\ TabsEffect
    /\ UNCHANGED <<tabsOld, openedIn, editorRest>>

\* the tabs with the name of the tab with this id replaced
renameTab(tabs, id, name) ==
  [i \in DOMAIN tabs |-> IF tabs[i].id = id THEN [tabs[i] EXCEPT !.name = name] ELSE tabs[i]]
\* the Rename dialog's button
RenameConfirm ==
  \E id \in TreeIds, name \in NewNames :
    /\ Idle
    /\ ~showDashboard
    /\ SetTreeQuiet(renameNode(heap, tree, id, name))
    /\ openTabs' = renameTab(openTabs, id, name)
    /\ UNCHANGED activeId
    /\ TreeEffect
    /\ TabsEffect
    /\ UNCHANGED <<nextId, tabsOld, openedIn, editorRest>>

\* the Delete dialog's button
DeleteConfirm ==
  \E id \in TreeIds :
    /\ Idle
    /\ ~showDashboard
    /\ SetTreeQuiet(removeNode(heap, tree, id))
    /\ openTabs' = SelectSeq(openTabs, LAMBDA t : t.id # id)
    /\ activeId' = IF activeId = id THEN NoId ELSE activeId
    /\ TreeEffect
    /\ TabsEffect
    /\ UNCHANGED <<nextId, tabsOld, openedIn, editorRest>>

\* a drop in the explorer: onMove
MoveDrop ==
  \E sourceId \in TreeIds, targetId \in TreeIds, position \in Positions :
    /\ Idle
    /\ ~showDashboard
    /\ SetTreeQuiet(moveNode(heap, tree, sourceId, targetId, position))
    /\ UNCHANGED <<openTabs, activeId>>
    /\ TreeEffect
    /\ TabsEffect
    /\ UNCHANGED <<nextId, tabsOld, openedIn, editorRest>>

\* handleChange(value): an edit in the active tab
HandleChange ==
  \E value \in Contents :
    /\ Idle
    /\ ~showDashboard
    /\ activeId \in TabIds(openTabs)
    /\ openTabs' = [i \in DOMAIN openTabs |->
                      IF openTabs[i].id = activeId
                      THEN [openTabs[i] EXCEPT !.content = value] ELSE openTabs[i]]
    /\ SetTreeQuiet(updateFileContent(heap, tree, activeId, value))
    /\ UNCHANGED activeId
    /\ TreeEffect
    /\ TabsEffect
    /\ UNCHANGED <<nextId, tabsOld, openedIn, editorRest>>

\* the handler has returned
CommitTabs ==
  /\ ~Idle
  /\ last' = NoCall
  /\ tabsOld' = NoTabs
  /\ UNCHANGED <<heap, tree, nextId, old, oldAfter, store, loaded, archive, openTabs, activeId>>
  /\ UNCHANGED <<wsVars, authVars, pending>>

\* The tab bar and the dialogs that the tab claims name.
NextTabs ==
  \/ HandleOpenFile
  \/ SelectTab
  \/ CloseTab
  \/ CreateConfirm
  \/ RenameConfirm
  \/ DeleteConfirm
  \/ CommitTabs

SpecTabs == Init /\ [][NextTabs]_vars

\* The explorer and the editor of one workspace.  Tabs are found by id and
\* a rename changes no id, so renames are left to NextTabs.
NextIde ==
  \/ HandleOpenFile
  \/ CreateConfirm
  \/ DeleteConfirm
  \/ MoveDrop
  \/ HandleChange

SpecIde == Init /\ [][NextIde]_vars

\* -------------------------------------------------------------- dashboard
\* scriptsFolder.children[0] of the first folder below the root, if that
\* is a file: the file the page opens when it starts with no tab
defaultFile(h, root) ==
  LET folders == SelectSeq(h[root].children, LAMBDA c : isFolder(h[c]))
  IN IF folders = <<>> THEN NULL
     ELSE IF h[folders[1]].children = <<>> THEN NULL
     ELSE IF isFile(h[h[folders[1]].children[1]]) THEN h[folders[1]].children[1]
     ELSE NULL

\* The page as it starts when nothing is stored: loadWorkspaces() gives the
\* default workspace, its tree is the current tree, the dashboard is shown
\* and the effect that runs once has opened the default file.
InitWorkspaces ==
  /\ heap = DEFAULT_TREE
  /\ tree = 1
  /\ nextId = 1
  /\ old = heap
  /\ oldAfter = heap
  /\ last = NoCall
  /\ store = saveTree(heap, tree)
  /\ loaded = NotLoaded
  /\ archive = NoArchive
  /\ openTabs = openTab(<<>>, TabOf(heap[defaultFile(heap, tree)]))
  /\ activeId = heap[defaultFile(heap, tree)].id
  /\ tabsOld = NoTabs
  /\ manager = loadWorkspaces(1)
  /\ showDashboard = TRUE
  /\ tabStore = [w \in WsIds |-> IF w = 1 THEN [present |-> TRUE, tabs |-> openTabs] ELSE NoSavedTabs]
  /\ activeStore = [w \in WsIds |-> IF w = 1 THEN activeId ELSE NoId]
  /\ openedIn = [w \in WsIds |-> IF w = 1 THEN TabIds(openTabs) ELSE {}]
  /\ nextWs = 2
  /\ authItem = TRUE
  /\ gate = [w \in Windows |-> "true"]
  /\ inner = [w \in Windows |-> "true"]
  /\ pending = NoRequest

\* what a handler of the dashboard leaves alone
dashboardRest == <<archive, tabsOld, authVars, pending>>

\* the Home button: setShowDashboard(true)
ShowDashboard ==
  /\ Idle
  /\ ~showDashboard
  /\ showDashboard' = TRUE
  /\ UNCHANGED <<treeVars, store, loaded, archive, tabVars, manager, tabStore,
                 activeStore, openedIn, nextWs, authVars, pending>>

\* handleCreateWorkspace: the new workspace is put at the end of the list
HandleCreateWorkspace ==
  /\ Idle
  /\ showDashboard
  /\ nextWs <= MaxWorkspaces
  /\ manager' = addWorkspace(manager, createWorkspace(nextWs))
  /\ nextWs' = nextWs + 1
  /\ UNCHANGED <<openTabs, activeId>>
  /\ TabsEffect
  /\ UNCHANGED <<treeVars, store, loaded, showDashboard, openedIn, dashboardRest>>

\* handleDeleteWorkspace(id): what deleteWorkspace throws is caught and logged
HandleDeleteWorkspace ==
  \E id \in WorkspaceIds(manager) :
    LET r == deleteWorkspace(manager, id)
    IN /\ Idle
       /\ showDashboard
       /\ manager' = r.manager
       /\ UNCHANGED <<openTabs, activeId>>
       /\ TabsEffect
       /\ UNCHANGED <<treeVars, store, loaded, showDashboard, openedIn, nextWs, dashboardRest>>

\* the saved tabs are restored without looking them up in the tree
validTabsAll(tabs, h, root) == tabs
\* tabs.filter((tab) => findNode(workspace.tree, tab.id))
validTabs(tabs, h, root) == SelectSeq(tabs, LAMBDA tab : findNode(h, root, tab.id) # NULL)
\* the active id handleSelectWorkspace sets for these tabs
restoreActive(valid, savedActiveId) ==
  IF savedActiveId # NoId /\ savedActiveId \in TabIds(valid) THEN savedActiveId
  ELSE idAt(valid, 0)

\* handleSelectWorkspace(id): a workspace of the dashboard is clicked
HandleSelectWorkspace ==
  \E id \in WorkspaceIds(manager) :
    LET updatedManager == switchWorkspace(manager, id)
        workspace == WorkspaceOf(updatedManager, id)
        saved == tabStore[id]
        valid == IF saved.present THEN validTabs(saved.tabs, workspace.tree, 1) ELSE <<>>
    IN /\ Idle
       /\ showDashboard
       /\ heap' = workspace.tree
       /\ tree' = 1
       /\ old' = heap'
       /\ oldAfter' = heap'
       /\ openTabs' = valid
       /\ activeId' = IF saved.present THEN restoreActive(valid, activeStore[id]) ELSE NoId
       /\ showDashboard' = FALSE
       /\ last' = [op |-> "selectWorkspace", id |-> id, saved |-> saved,
                   savedActiveId |-> activeStore[id]]
       /\ manager' = updateWorkspaceTree(updatedManager, id, heap')
       /\ store' = saveTree(heap', tree')
       /\ loaded' = NotLoaded
       /\ openedIn' = [openedIn EXCEPT ![id] = @ \cup TabIds(valid)]
       /\ TabsEffect
       /\ UNCHANGED <<nextId, nextWs, dashboardRest>>

\* One workspace, left for the dashboard and selected again: files are
\* opened, files and folders are deleted.
NextRestore ==
  \/ HandleOpenFile
  \/ SelectTab
  \/ DeleteConfirm
  \/ ShowDashboard
  \/ HandleSelectWorkspace
  \/ CommitTabs

SpecRestore == InitWorkspaces /\ [][NextRestore]_vars

\* The dashboard and the editor: workspaces are created, deleted and
\* selected, files are opened and closed.
NextWorkspaces ==
  \/ HandleOpenFile
  \/ CloseTab
  \/ ShowDashboard
  \/ HandleCreateWorkspace
  \/ HandleDeleteWorkspace
  \/ HandleSelectWorkspace
  \/ CommitTabs

SpecWorkspaces == InitWorkspaces /\ [][NextWorkspaces]_vars

\* ----------------------------------------------------------- early access
\* localStorage.getItem(STORAGE_KEY) === "true", as the state of a hook
checkAuth(item) == IF item THEN "true" ELSE "false"
\* what the steps of the early access gate leave alone
notAuth ==
  <<heap, tree, nextId, old, oldAfter, store, loaded, archive, tabVars, wsVars, pending>>

\* The application is loaded in every window and nothing is stored: no hook
\* has run its effect yet, and Index is not mounted.
InitAuth ==
  /\ heap = <<createFolder(RootId, "workspace", <<>>)>>
  /\ tree = 1
  /\ nextId = 1
  /\ old = heap
  /\ oldAfter = heap
  /\ last = NoCall
  /\ store = NoItem
  /\ loaded = NotLoaded
  /\ archive = NoArchive
  /\ openTabs = <<>>
  /\ activeId = NoId
  /\ tabsOld = NoTabs
  /\ manager = [workspaces |-> <<[id |-> 1, tree |-> heap]>>, activeWorkspaceId |-> 1]
  /\ showDashboard = TRUE
  /\ tabStore = [w \in WsIds |-> NoSavedTabs]
  /\ activeStore = [w \in WsIds |-> NoId]
  /\ openedIn = [w \in WsIds |-> {}]
  /\ nextWs = 2
  /\ authItem = FALSE
  /\ gate = [w \in Windows |-> "null"]
  /\ inner = [w \in Windows |-> "none"]
  /\ pending = NoRequest

\* The storage event in the windows other than w: every hook whose effect
\* has run calls checkAuth.
gateAfterEvent(w, item) ==
  [v \in Windows |-> IF v = w \/ gate[v] = "null" THEN gate[v] ELSE checkAuth(item)]
\* Index is mounted where the gate opens and unmounted where it closes; a
\* hook of Index whose effect has run calls checkAuth as well
innerAfterEvent(w, item) ==
  [v \in Windows |->
     IF v = w \/ gate[v] = "null" THEN inner[v]
     ELSE IF ~item THEN "none"
     ELSE IF gate[v] = "false" \/ inner[v] = "null" THEN "null"
     ELSE "true"]

\* the window is loaded again: AppContent mounts, its hook has state null
Reload ==
  \E w \in Windows :
    /\ gate[w] # "null"
    /\ gate' = [gate EXCEPT ![w] = "null"]
    /\ inner' = [inner EXCEPT ![w] = "none"]
    /\ last' = [op |-> "reload", id |-> w]
    /\ UNCHANGED <<authItem, notAuth>>

\* the effect of the hook of AppContent runs: checkAuth(); if the gate
\* opens, Index mounts with a hook of its own
CheckAuth ==
  \E w \in Windows :
    /\ gate[w] = "null"
    /\ gate' = [gate EXCEPT ![w] = checkAuth(authItem)]
    /\ inner' = [inner EXCEPT ![w] = IF authItem THEN "null" ELSE "none"]
    /\ last' = [op |-> "checkAuth", id |-> w]
    /\ UNCHANGED <<authItem, notAuth>>

\* the effect of the hook of Index runs: checkAuth()
IndexCheckAuth ==
  \E w \in Windows :
    /\ inner[w] = "null"
    /\ inner' = [inner EXCEPT ![w] = checkAuth(authItem)]
    /\ last' = [op |-> "indexCheckAuth", id |-> w]
    /\ UNCHANGED <<authItem, gate, notAuth>>

\* authenticate() of the hook of AppContent, from the early access screen
Authenticate ==
  \E w \in Windows :
    /\ gate[w] = "false"
    /\ authItem' = TRUE
    /\ gate' = [gateAfterEvent(w, TRUE) EXCEPT ![w] = "true"]
    /\ inner' = [innerAfterEvent(w, TRUE) EXCEPT ![w] = "null"]
    /\ last' = [op |-> "authenticate", id |-> w]
    /\ UNCHANGED notAuth

\* what logout() of the hook of Index does to the hook of AppContent of
\* its window: nothing
logoutGate(w) == gate[w]

\* logout() of the hook of Index, from the button of the main interface;
\* the other windows get a storage event if the item was there
Logout ==
  \E w \in Windows :
    /\ gate[w] = "true"
    /\ authItem' = FALSE
    /\ gate' = IF authItem THEN [gateAfterEvent(w, FALSE) EXCEPT ![w] = logoutGate(w)]
               ELSE [gate EXCEPT ![w] = logoutGate(w)]
    /\ inner' = IF authItem THEN [innerAfterEvent(w, FALSE) EXCEPT ![w] = "false"]
                ELSE [inner EXCEPT ![w] = "false"]
    /\ last' = [op |-> "logout", id |-> w]
    /\ UNCHANGED notAuth

NextAuth ==
  \/ Reload
  \/ CheckAuth
  \/ IndexCheckAuth
  \/ Authenticate
  \/ Logout

\* The early access gate in the windows of one browser.
SpecAuth == InitAuth /\ [][NextAuth]_vars

\* ------------------------------------------------- assistant in the page
\* handleSend(text): processRequest is called with the tree the chat was
\* rendered with, and waits for the model's answer
AgentSend ==
  /\ Idle
  /\ ~showDashboard
  /\ ~pending.active
  /\ pending' = [active |-> TRUE, heap |-> heap]
  /\ UNCHANGED <<treeVars, store, loaded, archive, tabVars, wsVars, authVars>>

\* The answer has come: executeFileOperations runs one create operation for
\* the path folders/fileName on the tree processRequest was given, opens
\* the file and hands the tree to onTreeUpdate, which sets it.
AgentApply ==
  \E folders \in FolderPaths, fileName \in PathNames, content \in Contents :
    LET r == createAtPath(pending.heap, 1, folders, fileName, content, nextId)
        h == Collect(r.heap, r.ret)
        file == createFile(r.file, fileName, content)
    IN /\ Idle
       /\ pending.active
       /\ r.nextId <= MaxFresh + 1
       /\ heap' = h
       /\ tree' = 1
       /\ old' = heap'
       /\ oldAfter' = heap'
       /\ nextId' = r.nextId
       /\ last' = [op |-> "agentApply", id |-> r.file, given |-> pending.heap,
                   before |-> heap]
       /\ openTabs' = openTab(openTabs, TabOf(file))
       /\ activeId' = r.file
       /\ openedIn' = [openedIn EXCEPT ![manager.activeWorkspaceId] = @ \cup {r.file}]
       /\ pending' = NoRequest
       /\ TreeEffect
       /\ TabsEffect
       /\ UNCHANGED <<archive, tabsOld, showDashboard, nextWs, authVars>>

\* The user works in the explorer while the assistant works on a request.
NextAssist ==
  \/ AgentSend
  \/ CreateConfirm
  \/ DeleteConfirm
  \/ AgentApply
  \/ CommitTabs

SpecAssist == Init /\ [][NextAssist]_vars

\* ===================================================== properties: helpers
\* A tree is a collected heap with its root at address 1.
Root == 1
IdsOf(h) == {h[a].id : a \in DOMAIN h}
\* the addresses of the nodes with this id
AddrsOf(h, id) == {a \in DOMAIN h : h[a].id = id}
\* the parent links that point at a: <<parent address, position>>
Links(h, a) ==
  {<<p, i>> \in (DOMAIN h) \X (DOMAIN h) : i \in DOMAIN h[p].children /\ h[p].children[i] = a}
Kids(h, a) == Range(h[a].children)

RECURSIVE Below(_, _, _)
\* everything reachable from the addresses in as by 1..fuel child links
Below(h, as, fuel) ==
  IF fuel = 0 \/ as = {} THEN {}
  ELSE LET next == UNION {Kids(h, a) : a \in as}
       IN next \cup Below(h, next, fuel - 1)
\* the proper descendants of a
Desc(h, a) == Below(h, {a}, Len(h))
\* ids of the nodes strictly below a node with this id
DescIds(h, id) == {h[d].id : d \in UNION {Desc(h, a) : a \in AddrsOf(h, id)}}

RECURSIVE Climb(_, _, _)
\* does following parent links from a reach the root within fuel steps?
Climb(h, a, fuel) ==
  IF a = Root THEN TRUE
  ELSE IF fuel = 0 THEN FALSE
  ELSE \E l \in Links(h, a) : Climb(h, l[1], fuel - 1)

\* the child ids of the node with this id, in order
KidIds(h, id) ==
  LET a == CHOOSE x \in AddrsOf(h, id) : TRUE
  IN [i \in DOMAIN h[a].children |-> h[h[a].children[i]].id]
\* the id of the parent of the node with this id
ParentId(h, id) ==
  LET a == CHOOSE x \in AddrsOf(h, id) : TRUE
      l == CHOOSE x \in Links(h, a) : TRUE
  IN h[l[1]].id
\* the subtree below the node with this id, as a tree of its own
Subtree(h, id) == Collect(h, CHOOSE x \in AddrsOf(h, id) : TRUE)

Called(op) == last.op = op
\* the call changed something
Changed == heap # old

\* ================================================================= claims
\* C1 Uniqueness: from a tree with pairwise distinct ids, after any sequence
\* of updateFileContent, addChild of freshly created nodes, removeNode,
\* renameNode and moveNode, no two nodes of the tree share an id.
C1_UniqueIds ==
  \A a, b \in DOMAIN heap : a # b => heap[a].id # heap[b].id
\* a full tree (root and MaxFresh created nodes) that a move has just rearranged
C1_Witness ==
  /\ Called("moveNode") /\ Changed
  /\ Len(heap) = MaxFresh + 1

\* C2 Immutability: a call of any of the five operations leaves its input
\* tree as it was: a snapshot of the input taken after the call equals the
\* one taken before it.
C2_InputUntouched == oldAfter = old
\* spec scenario 1: a file under a folder is edited from "one" to "two";
\* the tree held from before the call still reports "one"
C2_Witness ==
  /\ Called("updateFileContent") /\ Changed
  /\ \E a \in AddrsOf(oldAfter, last.id) :
       /\ oldAfter[a].content = "one"
       /\ \E l \in Links(oldAfter, a) : l[1] # Root
  /\ \E a \in AddrsOf(heap, last.id) : heap[a].content = "two"

\* C3 Acyclicity / single ownership: after any sequence of operations the
\* root has no parent, every other node is in exactly one children list
\* exactly once, following parent links from any node reaches the root, and
\* no node is among its own descendants.
C3_SingleOwnership ==
  /\ Links(heap, Root) = {}
  /\ \A a \in DOMAIN heap \ {Root} : Cardinality(Links(heap, a)) = 1
  /\ \A a \in DOMAIN heap : Climb(heap, a, Len(heap))
  /\ \A a \in DOMAIN heap : a \notin Desc(heap, a)
\* a folder with a child has just been moved under another parent
C3_Witness ==
  /\ Called("moveNode") /\ Changed
  /\ last.id \in IdsOf(heap) /\ last.id \in IdsOf(old)
  /\ KidIds(heap, last.id) # <<>>
  /\ ParentId(heap, last.id) # ParentId(old, last.id)

\* what moveNode's caller may assume in C4 and C6: two distinct nodes of the
\* input tree, the target not below the source
MovePre ==
  /\ Called("moveNode")
  /\ last.id # last.target
  /\ last.id \in IdsOf(old) /\ last.target \in IdsOf(old)
  /\ last.target \notin DescIds(old, last.id)

\* the source sits in the children of parent, right after (d = 1) or right
\* before (d = -1) the target
NextTo(h, parent, sourceId, targetId, d) ==
  /\ parent \in IdsOf(h)
  /\ \E i \in DOMAIN KidIds(h, parent) :
       /\ KidIds(h, parent)[i] = targetId
       /\ i + d \in DOMAIN KidIds(h, parent)
       /\ KidIds(h, parent)[i + d] = sourceId

\* C4 Before/after placement: for distinct source and target, the target
\* neither the root nor below the source, moveNode(.., "after") returns a
\* tree where the source is a child of the target's parent immediately after
\* the target, and moveNode(.., "before") one where it is immediately before
\* the target; also when both are siblings, the source first, with other
\* siblings between them.
C4_PlacedNextToTarget ==
  (MovePre /\ last.target # old[Root].id /\ last.position \in {"before", "after"})
    => NextTo(heap, ParentId(old, last.target), last.id, last.target,
              IF last.position = "after" THEN 1 ELSE -1)

\* C5 Cycle guard: whatever the position, a move whose target is a direct
\* or transitive descendant of the source returns a tree equal to the input.
C5_CycleGuard ==
  (Called("moveNode") /\ last.target \in DescIds(old, last.id)) => heap = old
\* the target is below the source, but not one of its children
C5_Witness ==
  /\ Called("moveNode")
  /\ last.id # old[Root].id
  /\ last.target \in DescIds(old, last.id)
  /\ last.target \notin Range(KidIds(old, last.id))

\* C6 Move inside a folder: for distinct existing source and target, the
\* target a folder and not below the source, moveNode(.., "inside") returns
\* a tree where the source, with its whole subtree, is the last child of the
\* target and a child of nothing else; a source that was a child of the
\* target already becomes its last child.
C6_MoveInside ==
  (MovePre /\ last.position = "inside"
           /\ \E t \in AddrsOf(old, last.target) : isFolder(old[t]))
    => /\ last.id \in IdsOf(heap) /\ last.target \in IdsOf(heap)
       /\ KidIds(heap, last.target) # <<>>
       /\ KidIds(heap, last.target)[Len(KidIds(heap, last.target))] = last.id
       /\ \A a \in AddrsOf(heap, last.id) :
            \A l \in Links(heap, a) :
              /\ heap[l[1]].id = last.target
              /\ l[2] = Len(heap[l[1]].children)
       /\ Subtree(heap, last.id) = Subtree(old, last.id)
\* the source was the first of several children of the target
C6_Witness ==
  /\ MovePre /\ last.position = "inside"
  /\ Len(KidIds(old, last.target)) >= 2
  /\ KidIds(old, last.target)[1] = last.id
  /\ last.target # old[Root].id

\* C7 Removal cascades: after removeNode of a non-root node, findNode finds
\* neither that node nor any of its descendants, and finds every other node.
C7_RemovalCascades ==
  (Called("removeNode") /\ last.id \in IdsOf(old) /\ last.id # old[Root].id)
    => LET gone == {last.id} \cup DescIds(old, last.id)
       IN /\ \A id \in gone : findNode(heap, tree, id) = NULL
          /\ \A id \in IdsOf(old) \ gone : findNode(heap, tree, id) # NULL
\* a folder with a child, itself inside a folder, was removed
C7_Witness ==
  /\ Called("removeNode") /\ last.id \in IdsOf(old) /\ last.id # old[Root].id
  /\ DescIds(old, last.id) # {}
  /\ ParentId(old, last.id) # old[Root].id
  /\ Len(heap) = 2

\* C8 Not-found is a silent no-op: updateFileContent, addChild, removeNode
\* and renameNode with an id that is not in the tree, and moveNode with an
\* unknown source or an unknown target, return a tree equal to the input.
C8_NotFoundNoOp ==
  /\ (last.op \in {"updateFileContent", "addChild", "removeNode", "renameNode"}
        /\ last.id \notin IdsOf(old)) => heap = old
  /\ (Called("moveNode")
        /\ (last.id \notin IdsOf(old) \/ last.target \notin IdsOf(old))) => heap = old
\* an edit of an unknown id in a tree that has files to edit
C8_Witness ==
  /\ Called("updateFileContent")
  /\ last.id \notin IdsOf(old)
  /\ \E a \in DOMAIN old : isFile(old[a]) /\ old[a].content # last.content

\* C9 Type mismatch is a silent no-op: addChild whose parentId names a file,
\* and updateFileContent whose id names a folder, return a tree equal to
\* the input.
C9_TypeMismatchNoOp ==
  /\ (Called("addChild")
        /\ \E a \in AddrsOf(old, last.id) : isFile(old[a])) => heap = old
  /\ (Called("updateFileContent")
        /\ \E a \in AddrsOf(old, last.id) : isFolder(old[a])) => heap = old
\* a node was to be added under a file
C9_Witness ==
  /\ Called("addChild")
  /\ \E a \in AddrsOf(old, last.id) : isFile(old[a])

\* C10 Self-move: moveNode(tree, id, id, position) returns the input tree
\* unchanged, for every tree, id and position.
C10_SelfMove ==
  (Called("moveNode") /\ last.id = last.target) => heap = old
\* a folder with children was moved onto itself
C10_Witness ==
  /\ Called("moveNode") /\ last.id = last.target
  /\ last.id \in IdsOf(old) /\ last.id # old[Root].id
  /\ KidIds(old, last.id) # <<>>

\* C11 Content update: updateFileContent(tree, id, c) with id naming a File
\* returns a tree in which that file's content is c and every other node,
\* field and child order equals the input.
C11_UpdateFrame ==
  (Called("updateFileContent")
     /\ \E a \in AddrsOf(old, last.id) : isFile(old[a]))
  => heap = [a \in DOMAIN old |->
               IF old[a].id = last.id
               THEN [old[a] EXCEPT !.content = last.content]
               ELSE old[a]]
\* a nested file, not the first child of its folder, got a new content
\* while another file kept its own
C11_Witness ==
  /\ Called("updateFileContent")
  /\ \E a \in AddrsOf(old, last.id) :
       /\ isFile(old[a])
       /\ old[a].content # last.content
       /\ heap[a].content = last.content
       /\ \E l \in Links(old, a) : l[1] # Root /\ l[2] > 1
  /\ \E b \in DOMAIN old : isFile(old[b]) /\ old[b].id # last.id
                             /\ heap[b].content # last.content

\* the fields of the node with this id and the ids of its children in order
NodeView(h, id) ==
  LET a == CHOOSE x \in AddrsOf(h, id) : TRUE
  IN [name |-> h[a].name, type |-> h[a].type, content |-> h[a].content,
      kids |-> KidIds(h, id)]

\* C12 addChild appends: addChild(tree, parentId, child) with parentId
\* naming a Folder returns a tree in which child is the last element of that
\* folder's children, the folder's previous children keep their order
\* before it, and every other node is unchanged.
C12_AddChildAppends ==
  (Called("addChild")
     /\ \E a \in AddrsOf(old, last.id) : isFolder(old[a]))
  => /\ IdsOf(heap) = IdsOf(old) \cup {last.target}
     /\ heap[tree].id = old[Root].id
     /\ KidIds(heap, last.id) = Append(KidIds(old, last.id), last.target)
     /\ NodeView(heap, last.target).name = last.name
     /\ NodeView(heap, last.target).kids = <<>>
     /\ \A id \in IdsOf(old) :
          NodeView(heap, id) =
            IF id = last.id
            THEN [NodeView(old, id) EXCEPT !.kids = Append(@, last.target)]
            ELSE NodeView(old, id)
\* a child was added to a folder that already had two children
C12_Witness ==
  /\ Called("addChild")
  /\ \E a \in AddrsOf(old, last.id) : isFolder(old[a]) /\ Len(old[a].children) = 2
  /\ last.target \in IdsOf(heap)

\* C13 Rename: renameNode(tree, id, newName) with id naming an existing node
\* returns a tree in which only that node's name differs from the input; a
\* sibling that already has the name does not prevent it.
C13_RenameFrame ==
  (Called("renameNode") /\ last.id \in IdsOf(old))
  => heap = [a \in DOMAIN old |->
               IF old[a].id = last.id
               THEN [old[a] EXCEPT !.name = last.name]
               ELSE old[a]]
\* a folder with children was renamed to the name one of its siblings has
C13_Witness ==
  /\ Called("renameNode")
  /\ \E a \in AddrsOf(old, last.id) :
       /\ isFolder(old[a]) /\ old[a].children # <<>>
       /\ old[a].name # last.name /\ heap[a].name = last.name
       /\ \E l \in Links(old, a) :
            \E b \in Kids(old, l[1]) : b # a /\ old[b].name = last.name

\* the position of the node with this id in its parent's children
PosOf(h, id) ==
  LET a == CHOOSE x \in AddrsOf(h, id) : TRUE
      l == CHOOSE x \in Links(h, a) : TRUE
  IN l[2]
\* x and y are siblings and x comes first
SiblingsInOrder(h, x, y) ==
  /\ x # h[Root].id /\ y # h[Root].id
  /\ ParentId(h, x) = ParentId(h, y)
  /\ PosOf(h, x) < PosOf(h, y)

\* C14 Order preservation: after any operation, two nodes that were
\* siblings before the call and are both still in the tree, neither of them
\* the source of a moveNode, are still siblings in the same relative order.
C14_OrderPreserved ==
  \A x, y \in IdsOf(old) \cap IdsOf(heap) :
    (/\ x # y
     /\ SiblingsInOrder(old, x, y)
     /\ ~(Called("moveNode") /\ last.id \in {x, y}))
    => SiblingsInOrder(heap, x, y)
\* the first of three siblings was moved away, or the middle one removed,
\* and the two that stayed are in the order they had
C14_Witness ==
  /\ Changed
  /\ \/ Called("moveNode") /\ last.id \in IdsOf(old) /\ last.id # old[Root].id
          /\ PosOf(old, last.id) = 1 /\ last.id \in IdsOf(heap)
          /\ ParentId(heap, last.id) # ParentId(old, last.id)
     \/ Called("removeNode") /\ last.id \in IdsOf(old) /\ last.id # old[Root].id
          /\ PosOf(old, last.id) = 2
  /\ \E x, y \in (IdsOf(old) \cap IdsOf(heap)) \ {last.id} :
       /\ x # y
       /\ SiblingsInOrder(old, x, y)
       /\ ParentId(old, x) = ParentId(old, last.id)
       /\ SiblingsInOrder(heap, x, y)

\* C15 Root is never replaced: after any sequence of operations, removeNode
\* and moveNode with the root's id included, the root of the tree has the
\* id it started with and is a Folder.
C15_RootKept ==
  /\ heap[tree].id = RootId
  /\ isFolder(heap[tree])
  /\ old[Root].id = RootId
\* removeNode, or moveNode as source, was called with the root's id on a
\* tree that has a folder to move into
C15_Witness ==
  /\ last.id = old[Root].id
  /\ \/ Called("removeNode") /\ old[Root].children # <<>>
     \/ /\ Called("moveNode")
        /\ \E a \in AddrsOf(old, last.target) : a # Root /\ isFolder(old[a])
  /\ heap[tree].id = old[Root].id

\* C19 'inside' on a File is 'before': moveNode(tree, s, t, "inside") with t
\* naming a File returns the tree that moveNode(tree, s, t, "before")
\* returns, for every tree and every s.
C19_InsideFileIsBefore ==
  (Called("moveNode") /\ last.position = "inside"
     /\ \E a \in AddrsOf(old, last.target) : isFile(old[a]))
  => LET r == moveNode(old, Root, last.id, last.target, "before")
     IN heap = Collect(r.heap, r.ret)
\* a node from another folder was dropped inside a file that has a sibling
\* before it, and landed just before the file
C19_Witness ==
  /\ Called("moveNode") /\ last.position = "inside"
  /\ \E a \in AddrsOf(old, last.target) : isFile(old[a])
  /\ last.id \in IdsOf(old) \cap IdsOf(heap) /\ last.id # old[Root].id
  /\ ParentId(old, last.id) # ParentId(old, last.target)
  /\ ParentId(heap, last.id) = ParentId(heap, last.target)
  /\ PosOf(old, last.target) > 1
  /\ PosOf(heap, last.id) + 1 = PosOf(heap, last.target)

\* A well-formed tree: the root is a folder, every node is a file with a
\* content and no children or a folder with children and no content, every
\* node but the root is the child of exactly one folder, and ids are
\* distinct.
WellFormed(h) ==
  /\ isFolder(h[Root])
  /\ Links(h, Root) = {}
  /\ \A a \in DOMAIN h :
       /\ h[a].type \in {"file", "folder"}
       /\ isFile(h[a]) => h[a].children = <<>>
       /\ isFolder(h[a]) => h[a].content = ""
       /\ Kids(h, a) \subseteq DOMAIN h
       /\ a # Root => Cardinality(Links(h, a)) = 1 /\ Climb(h, a, Len(h))
  /\ \A a, b \in DOMAIN h : h[a].id = h[b].id => a = b

\* C18 No operation raises: on a well-formed tree and any arguments (ids
\* that are unknown, the root's id, ids of the wrong type, any position)
\* every operation completes and returns a well-formed tree, and findNode
\* returns the node with the id or null.
C18_OperationsTotal ==
  /\ WellFormed(heap)
  /\ \A id \in Ids :
       LET found == findNode(heap, tree, id)
       IN IF id \in IdsOf(heap)
          THEN found \in DOMAIN heap /\ heap[found].id = id
          ELSE found = NULL
\* a node was moved next to the root, which has no parent to insert into
C18_Witness ==
  /\ Called("moveNode") /\ last.position # "inside"
  /\ last.target = old[Root].id
  /\ last.id \in IdsOf(old) /\ last.id # old[Root].id
  /\ Changed

\* the text parses to a folder node with a children list
ValidStore(st) ==
  /\ st.present
  /\ LET r == JSONparse(st.text)
     IN r.ok /\ r.kind = "object" /\ isFolder(r.heap[1])

\* C16 Malformed persisted data falls back to the default tree: loadTree
\* returns DEFAULT_TREE whenever the stored text is missing, empty,
\* unparseable, or parseable but not a folder node with a children list.
C16_FallsBackToDefault ==
  (loaded # NotLoaded /\ ~ValidStore(store)) => loaded = DefaultValue

\* C17 Round-trip: for every valid tree t, saveTree(t) followed by
\* loadTree() yields a tree with the ids, names, contents, child order and
\* nesting of t.
C17_RoundTrip ==
  (loaded # NotLoaded /\ store = saveTree(heap, tree))
  => loaded = [kind |-> "object", heap |-> heap]
\* a tree with a folder of two children, two names and two contents was
\* saved and loaded
C17_Witness ==
  /\ loaded # NotLoaded /\ store = saveTree(heap, tree)
  /\ loaded.heap = heap
  /\ \E a \in DOMAIN heap : a # Root /\ Len(heap[a].children) = 2
  /\ \E a, b \in DOMAIN heap :
       /\ isFile(heap[a]) /\ isFile(heap[b])
       /\ heap[a].name # heap[b].name /\ heap[a].content # heap[b].content

RECURSIVE AncestorNames(_, _, _)
\* the names of the ancestors of a below the root, outermost first
AncestorNames(h, a, fuel) ==
  IF a = Root \/ fuel = 0 \/ Links(h, a) = {} THEN <<>>
  ELSE LET p == (CHOOSE l \in Links(h, a) : TRUE)[1]
       IN IF p = Root THEN <<>>
          ELSE AncestorNames(h, p, fuel - 1) \o <<h[p].name>>
\* a folder lies at this path of names below the root
FolderAt(h, names) ==
  \E a \in DOMAIN h :
    a # Root /\ isFolder(h[a]) /\ AncestorNames(h, a, Len(h)) \o <<h[a].name>> = names
\* how many of the folders p1, p1/p2, ... are not in the tree
Missing(h, folders) ==
  Cardinality({i \in DOMAIN folders : ~FolderAt(h, SubSeq(folders, 1, i))})

\* C20 Assistant file creation along a path: after a create operation for
\* p1/.../pk/name the tree handed to onTreeUpdate has a File called name
\* whose ancestors below the root are folders named p1..pk in that order,
\* and only the folders that were missing have been created; for every
\* prior tree, one where some pi names a File included.
C20_CreatedAlongPath ==
  Called("create")
  => /\ \E a \in DOMAIN heap :
          /\ isFile(heap[a]) /\ heap[a].name = last.name
          /\ AncestorNames(heap, a, Len(heap)) = last.path
     /\ Cardinality(IdsOf(heap) \ IdsOf(old)) = 1 + Missing(old, last.path)

\* the fields of a node that a move does not touch
Plain(h, id) ==
  LET a == CHOOSE x \in AddrsOf(h, id) : TRUE
  IN [name |-> h[a].name, type |-> h[a].type, content |-> h[a].content]

\* C25 moveNode never loses or duplicates a node: for every tree, source,
\* target and position (target = root with before or after included) the
\* ids reachable from the root of the result are those of the input, each
\* once, and each node keeps its name, type and content.
C25_MoveKeepsNodes ==
  Called("moveNode")
  => /\ IdsOf(heap) = IdsOf(old)
     /\ Len(heap) = Len(old)
     /\ \A id \in IdsOf(old) \cap IdsOf(heap) : Plain(heap, id) = Plain(old, id)

\* the path of a node in an archive: its ancestors' names below the root,
\* then its own
ZipPath(h, a) == AncestorNames(h, a, Len(h)) \o <<h[a].name>>

\* C21 Export walks the whole tree: the archive has exactly one entry per
\* File node, at the path of its ancestor folders' names below the root
\* followed by its own name; the root's name is not a path segment.
C21_OneEntryPerFile ==
  archive.made
  => LET fileNodes == {a \in DOMAIN heap : isFile(heap[a])}
         fileEntries == {e \in archive.files : ~e.dir}
     IN /\ \A a \in fileNodes :
             \E e \in fileEntries : e.path = ZipPath(heap, a) /\ e.data = heap[a].content
        /\ \A e \in fileEntries : \E a \in fileNodes : e.path = ZipPath(heap, a)
        /\ Cardinality(fileEntries) = Cardinality(fileNodes)

\* C27 Open tabs always refer to existing files: after any sequence of
\* explorer actions (open, create, rename, delete of a file or of a folder,
\* move) and editor edits, every tab in openTabs has an id that findNode
\* locates in the current tree.
C27_TabsInTree ==
  \A i \in DOMAIN openTabs : findNode(heap, tree, openTabs[i].id) # NULL

\* C28 Active tab invariant: after any sequence of handleOpenFile,
\* selectTab, closeTab, delete and rename from no open tabs, activeId is
\* null or the id of a tab in openTabs, and no two tabs have one id.
C28_ActiveTab ==
  /\ activeId = NoId \/ activeId \in TabIds(openTabs)
  /\ \A i, j \in DOMAIN openTabs : openTabs[i].id = openTabs[j].id => i = j
\* the active one of several tabs was deleted from the tree
C28_Witness ==
  /\ Len(openTabs) >= 2
  /\ activeId = NoId
  /\ \E i \in DOMAIN openTabs : openTabs[i].name \in NewNames

\* C29 closeTab(id): the tab is removed and the rest keep their order; if
\* it was the active tab, the tab to its left becomes active, else the one
\* that was to its right, else none; closing an inactive tab leaves
\* activeId as it was.
C29_CloseTab ==
  Called("closeTab")
  => LET before == tabsOld.tabs
         k == CHOOSE i \in DOMAIN before : before[i].id = last.id
     IN /\ openTabs = SubSeq(before, 1, k - 1) \o SubSeq(before, k + 1, Len(before))
        /\ tabsOld.active # last.id => activeId = tabsOld.active
        /\ tabsOld.active = last.id =>
             activeId = IF k > 1 THEN before[k - 1].id
                        ELSE IF k < Len(before) THEN before[k + 1].id
                        ELSE NoId
\* the active tab, with a tab on either side, was closed
C29_Witness ==
  /\ Called("closeTab")
  /\ tabsOld.active = last.id
  /\ Len(tabsOld.tabs) = 3
  /\ tabsOld.tabs[2].id = last.id
  /\ activeId = tabsOld.tabs[1].id

C22_TabsIsolated ==
  \A w \in WsIds : TabIds(tabStore[w].tabs) \subseteq openedIn[w]

\* C23 Persistent authentication: while the flag is set, the gate of
\* AppContent reports authenticated on every mount; after logout() from
\* the main interface the gate of that window reports not authenticated,
\* so the early access screen is shown.
C23_GateFollowsFlag ==
  \A w \in Windows :
    /\ (Called("checkAuth") /\ last.id = w /\ authItem) => gate[w] = "true"
    /\ (Called("logout") /\ last.id = w) => gate[w] = "false"

\* C26 No lost update between the user and the assistant: when the user
\* changes the tree while a request of the assistant is in flight, the tree
\* after onTreeUpdate still has the user's change: what the user created
\* meanwhile is there and what the user deleted meanwhile is not.
C26_UserChangeKept ==
  Called("agentApply") =>
    /\ (IdsOf(last.before) \ IdsOf(last.given)) \subseteq IdsOf(heap)
    /\ (IdsOf(last.given) \ IdsOf(last.before)) \cap IdsOf(heap) = {}

================================================================================
